---- MODULE Spec2Model ----
(***************************************************************************)
(* Model of the travel-app repository: the admin authorization gate        *)
(* (admin-layout clientLoader, getExistingUser, storeUserData), the        *)
(* create-trip action pipeline and the parseMarkdownToJson extractor.      *)
(***************************************************************************)
EXTENDS Integers, Sequences, FiniteSets, TLC

\* ------------------------------------------------------------------ bounds
MaxLoads == 2
MaxClock == 1
MaxReqs == 2
MaxPhotos == 4
MaxReplyLen == 6
MaxCount == 10
MaxStored == 9
MaxStatUsers == 2
MaxStatTrips == 1
MaxDash == 2
MaxCalls == 2
MaxHops == 3

\* --------------------------------------------------------------- universes
Accounts == {"a1", "a2"}
NoSession == "none"
Loads == 1..MaxLoads
Reqs == 1..MaxReqs
\* the role flag of a profile document; "none" is a document without the field
Roles == {"user", "admin", "none"}

VARIABLES
    users,      \* profile collection of the document store, in listing order
    nextId,     \* source of ID.unique()
    session,    \* the browser's current session: an account or NoSession
    now,        \* wall clock read by new Date()
    load,       \* per admin-route load: position and locals of clientLoader
    trips,      \* itinerary collection of the document store
    req,        \* per create-trip request: position and locals of action
    reply,      \* a model reply text handed to parseMarkdownToJson
    parsed,     \* what parseMarkdownToJson returned for it
    form,       \* the create-trip form: React state and position of handleSubmit
    trend,      \* one call of calculateTrendPercentage: arguments and result
    page,       \* one load of the trips page: URL parameter, query and result
    stats,      \* what getUsersAndTripsStats returned
    dash,       \* per dashboard load: position and fetches of its clientLoader
    calls,      \* calls of the query wrappers and what each gave its caller
    nav         \* one navigation: the route shown, redirects followed so far

gateVars == <<users, session, load>>
tripVars == <<trips, req>>
parseVars == <<reply, parsed>>
viewVars == <<form, trend, page, stats, dash, calls, nav>>
storeVars == <<users, nextId, session, now, load, trips, req, reply, parsed>>
vars == <<users, nextId, session, now, load, trips, req, reply, parsed,
          form, trend, page, stats, dash, calls, nav>>

\* ------------------------------------------------------------------ values
Null == [kind |-> "null"]
Undefined == [kind |-> "undefined"]
Pending == [kind |-> "pending"]
Redirect(to) == [kind |-> "redirect", to |-> to]
Data(d) == [kind |-> "data", doc |-> d]

EmailOf(a) == <<"email", a>>
NameOf(a) == <<"name", a>>

ProfileDoc(id, a, role, pic, t) ==
    [kind |-> "doc", id |-> id, accountId |-> a, email |-> EmailOf(a),
     name |-> NameOf(a), imageUrl |-> pic, joinedAt |-> t, status |-> role]

\* ---------------------------------------------------------- document store
\* database.listDocuments(..., [Query.equal('accountId', id)])
listDocuments(coll, id) == SelectSeq(coll, LAMBDA d : d.accountId = id)

\* getExistingUser: the first matching document, null when there is none or
\* when the listing rejects (ok = FALSE)
getExistingUser(coll, id, ok) ==
    IF ok
      THEN LET documents == listDocuments(coll, id)
           IN  IF Len(documents) > 0 THEN documents[1] ELSE Null
      ELSE Null

\* ------------------------------------------------------ clientLoader pieces
OnNoSession_back == Redirect("/dashboard")
\* `if (!user.$id) return redirect('/sign-in')`
OnNoSession == Redirect("/sign-in")

OnLoaderError_mut == Undefined
\* `catch (e) { ...; return redirect('/sign-in') }`
OnLoaderError == Redirect("/sign-in")

IsNonAdmin_mut(existingUser) == FALSE
\* `existingUser?.status === 'user'`
IsNonAdmin(existingUser) ==
    existingUser # Null /\ existingUser.status = "user"

HasProfile_mut(existingUser) == FALSE
\* `existingUser?.$id` is truthy
HasProfile(existingUser) == existingUser # Null

IdleLoad ==
    [pc |-> "start", got |-> "pending", existingUser |-> Pending,
     storeUser |-> "pending", picture |-> "pending", created |-> 0,
     result |-> Pending]

Finish(l, res) ==
    load' = [load EXCEPT ![l].pc = "done", ![l].result = res]

\* `const user = await account.get(); if (!user.$id) return redirect(...)`
LoaderAccountGet(l) ==
    /\ load[l].pc = "start"
    /\ \E outcome \in {"reject", "noid", "ok"} :
         /\ (outcome # "reject") => session # NoSession
         /\ CASE outcome = "reject" ->
                   load' = [load EXCEPT ![l].pc = "done", ![l].got = "reject",
                                        ![l].result = OnLoaderError]
              [] outcome = "noid" ->
                   load' = [load EXCEPT ![l].pc = "done", ![l].got = "noid",
                                        ![l].result = OnNoSession]
              [] OTHER ->
                   load' = [load EXCEPT ![l].pc = "lookup", ![l].got = session]
    /\ UNCHANGED <<users, nextId, session, now, tripVars, parseVars, viewVars>>

\* `const existingUser = await getExistingUser(user.$id)` and the two
\* decisions that follow it
LoaderGetExistingUser(l) ==
    /\ load[l].pc = "lookup"
    /\ \E ok \in BOOLEAN :
         LET existingUser == getExistingUser(users, load[l].got, ok)
         IN  IF IsNonAdmin(existingUser)
               THEN load' = [load EXCEPT ![l].pc = "done",
                                         ![l].existingUser = existingUser,
                                         ![l].result = Redirect("/")]
               ELSE IF HasProfile(existingUser)
                 THEN load' = [load EXCEPT ![l].pc = "done",
                                           ![l].existingUser = existingUser,
                                           ![l].result = Data(existingUser)]
                 ELSE load' = [load EXCEPT ![l].pc = "store_get",
                                           ![l].existingUser = existingUser]
    /\ UNCHANGED <<users, nextId, session, now, tripVars, parseVars, viewVars>>

\* storeUserData: `const user = await account.get()`
StoreAccountGet(l) ==
    /\ load[l].pc = "store_get"
    /\ \E ok \in BOOLEAN :
         /\ ok => session # NoSession
         /\ IF ok
              THEN load' = [load EXCEPT ![l].pc = "store_session",
                                        ![l].storeUser = session]
              ELSE Finish(l, Undefined)
    /\ UNCHANGED <<users, nextId, session, now, tripVars, parseVars, viewVars>>

\* storeUserData: `account.getSession('current')` and getGooglePicture
StoreGetSession(l) ==
    /\ load[l].pc = "store_session"
    /\ \E outcome \in {"reject", "nopicture", "picture"} :
         /\ (outcome # "reject") => session # NoSession
         /\ IF outcome = "reject"
              THEN Finish(l, Undefined)
              ELSE load' = [load EXCEPT ![l].pc = "store_create",
                                        ![l].picture = outcome]
    /\ UNCHANGED <<users, nextId, session, now, tripVars, parseVars, viewVars>>

\* storeUserData: `database.createDocument(...)`; the function returns nothing
StoreCreateDocument(l) ==
    /\ load[l].pc = "store_create"
    /\ \E ok \in BOOLEAN :
         IF ok
           THEN /\ users' = Append(users,
                       ProfileDoc(nextId, load[l].storeUser, "none",
                                  load[l].picture, now))
                /\ nextId' = nextId + 1
                /\ load' = [load EXCEPT ![l].pc = "done",
                                        ![l].created = load[l].created + 1,
                                        ![l].result = Undefined]
           ELSE /\ Finish(l, Undefined)
                /\ UNCHANGED <<users, nextId>>
    /\ UNCHANGED <<session, now, tripVars, parseVars, viewVars>>

\* logoutUser: `account.deleteSession('current')`
logoutUser ==
    /\ session # NoSession
    /\ session' = NoSession
    /\ UNCHANGED <<users, nextId, now, load, tripVars, parseVars, viewVars>>

\* the wall clock advances
Tick ==
    /\ now < MaxClock
    /\ now' = now + 1
    /\ UNCHANGED <<users, nextId, session, load, tripVars, parseVars, viewVars>>

\* ------------------------------------------------------- model reply texts
\* A reply is a sequence of lexical pieces:
\*   "F" = ```json   "T" = ```   "N" = a newline   "X" = prose
\*   "O1", "O2" = the text of a JSON object   "NUL" = the JSON literal null
Alphabet == {"F", "T", "N", "O1", "O2", "NUL", "X"}
JsonTokens == {"O1", "O2", "NUL"}

Thrown == [kind |-> "thrown"]
NoMatch == [kind |-> "nomatch"]
Object(name) == [kind |-> "object", name |-> name]

\* the value a JSON text denotes
JsonValue(tok) == IF tok = "NUL" THEN Null ELSE Object(tok)

\* the piece begins with three backticks
Ticks(tok) == tok \in {"T", "F"}

\* JSON.parse: whitespace around the single value is skipped, anything else
\* throws
JSONparse(text) ==
    LET body == SelectSeq(text, LAMBDA t : t # "N")
    IN  IF Len(body) = 1 /\ body[1] \in JsonTokens
          THEN JsonValue(body[1]) ELSE Thrown

\* JSON.stringify of a value the action holds
JSONstringify(v) == IF v = Null THEN <<"NUL">> ELSE <<v.name>>

\* the lazy `([\s\S]+?)\n```` part: the first newline at or after j that is
\* followed by three backticks, 0 when there is none
RECURSIVE FindClose(_, _)
FindClose(s, j) ==
    IF j + 1 > Len(s) THEN 0
    ELSE IF s[j] = "N" /\ Ticks(s[j + 1]) THEN j
    ELSE FindClose(s, j + 1)

RECURSIVE RegexExec_nonewline(_, _)
RegexExec_nonewline(s, i) ==
    IF i + 1 > Len(s) THEN NoMatch
    ELSE IF s[i] = "F"
      THEN LET c == FindClose(s, i + 2)
           IN  IF c # 0 THEN [kind |-> "match", group |-> SubSeq(s, i + 1, c - 1)]
               ELSE RegexExec_nonewline(s, i + 1)
      ELSE RegexExec_nonewline(s, i + 1)

\* markdownText.match(/```json\n([\s\S]+?)\n```/) tried from position i on:
\* the leftmost start, and for it the shortest non-empty group
RECURSIVE RegexExec(_, _)
RegexExec(s, i) ==
    IF i + 1 > Len(s) THEN NoMatch
    ELSE IF s[i] = "F" /\ s[i + 1] = "N"
      THEN LET c == FindClose(s, i + 3)
           IN  IF c # 0 THEN [kind |-> "match", group |-> SubSeq(s, i + 2, c - 1)]
               ELSE RegexExec(s, i + 1)
      ELSE RegexExec(s, i + 1)

\* parseMarkdownToJson: the parsed group of the match, null when there is no
\* match or JSON.parse throws
parseMarkdownToJson(markdownText) ==
    LET match == RegexExec(markdownText, 1)
    IN  IF match # NoMatch /\ Len(match.group) > 0
          THEN LET v == JSONparse(match.group)
               IN  IF v = Thrown THEN Null ELSE v
          ELSE Null

\* the reply format the prompt of the action asks for:
\* "Return ONLY valid JSON (no markdown, no code blocks) with this exact
\* structure: { ... }"
PromptFormat == "bare"

\* the reply is what PromptFormat asks for: the text of one JSON object, bare
\* or inside a ```json fence
FollowsPrompt(text) ==
    IF PromptFormat = "bare"
      THEN Len(text) = 1 /\ text[1] \in JsonTokens \ {"NUL"}
      ELSE /\ Len(text) = 5
           /\ text[1] = "F" /\ text[2] = "N" /\ text[4] = "N" /\ text[5] = "T"
           /\ text[3] \in JsonTokens \ {"NUL"}

\* one call of parseMarkdownToJson
ParseReply ==
    /\ parsed = Pending
    /\ parsed' = parseMarkdownToJson(reply)
    /\ UNCHANGED <<users, nextId, session, now, load, tripVars, reply, viewVars>>

\* ------------------------------------------------------ create-trip action
ErrorResponse == [kind |-> "error", error |-> "Failed to create trip"]
IdResponse_other(id) == [kind |-> "id", id |-> id + 1]
IdResponse(id) == [kind |-> "id", id |-> id]

\* request bodies: text that is not JSON, the JSON literal null, and a
\* preference object
BadJson == [kind |-> "badjson"]
JsonNull == [kind |-> "jsonnull"]
Prefs(days) ==
    [kind |-> "prefs", country |-> "c1", numberOfDays |-> days,
     travelStyle |-> "s1", userId |-> "a1"]
TripBodies == {BadJson, JsonNull, Prefs(5), Prefs(11)}

\* `const { country, ... } = await request.json()`: rejects on text that is
\* not JSON, and null cannot be destructured
readBody(body) == IF body.kind = "prefs" THEN body ELSE Thrown

\* replies the model can give
TripReplies ==
    { <<"F", "N", "O1", "N", "T">>,
      <<"X", "N", "F", "N", "O2", "N", "T", "N", "X">>,
      <<"O1">>,
      <<"X">>,
      <<"F", "N", "X", "N", "T">>,
      <<"F", "N", "NUL", "N", "T">> }

\* photo-search results: every result carries urls.regular, except result 2
PhotoPool == <<"u1", "nourl", "u3", "u4", "u5", "u6">>
PhotoResults ==
    { [kind |-> "results", list |-> SubSeq(PhotoPool, 1, n)] : n \in 0..MaxPhotos }
\* a response body without a `results` member
NoResults == [kind |-> "noresults"]

Min(a, b) == IF a < b THEN a ELSE b

UrlList(urls) == [kind |-> "list", urls |-> urls]

imageUrlsOf_lenient(body) ==
    IF body = NoResults THEN UrlList(<<>>)
    ELSE UrlList([i \in 1..Min(3, Len(body.list)) |->
                    IF body.list[i] = "nourl" THEN "null" ELSE body.list[i]])

imageUrlsOf_four(body) ==
    IF body = NoResults THEN Thrown
    ELSE UrlList([i \in 1..Min(4, Len(body.list)) |->
                    IF body.list[i] = "nourl" THEN "null" ELSE body.list[i]])

\* `(await imageResponse.json()).results.slice(0, 3).map(r => r.urls?.regular || null)`
imageUrlsOf(body) ==
    IF body = NoResults THEN Thrown
    ELSE UrlList([i \in 1..Min(3, Len(body.list)) |->
                    IF body.list[i] = "nourl" THEN "null" ELSE body.list[i]])

TripDoc_sameId(id, trip, t, imageUrls, userId) ==
    [kind |-> "doc", id |-> 1, tripDetail |-> JSONstringify(trip),
     createdAt |-> t, imageUrls |-> imageUrls, userId |-> userId]
TripDoc(id, trip, t, imageUrls, userId) ==
    [kind |-> "doc", id |-> id, tripDetail |-> JSONstringify(trip),
     createdAt |-> t, imageUrls |-> imageUrls, userId |-> userId]

Step(name, ok) == [step |-> name, ok |-> ok]

IdleReq ==
    [pc |-> "start", body |-> Pending, trip |-> Pending,
     photo |-> "pending", results |-> <<>>, imageUrls |-> <<>>, log |-> <<>>,
     written |-> <<>>,
     response |-> Pending]

\* the `catch` of the action
Fail(r, name) ==
    req' = [req EXCEPT ![r].pc = "done",
                       ![r].log = Append(req[r].log, Step(name, FALSE)),
                       ![r].response = ErrorResponse]

\* `await request.json()` and the destructuring, outside the try
ActionReadBody(r) ==
    /\ req[r].pc = "start"
    /\ \E body \in TripBodies :
         IF readBody(body) = Thrown
           THEN req' = [req EXCEPT ![r].pc = "done", ![r].body = body,
                                   ![r].response = Thrown]
           ELSE req' = [req EXCEPT ![r].pc = "model", ![r].body = body]
    /\ UNCHANGED <<nextId, now, trips, gateVars, parseVars, viewVars>>

\* `await genAI...generateContent([prompt])`, then
\* `parseMarkdownToJson(textResult.response.text())`
ActionGenerate(r) ==
    /\ req[r].pc = "model"
    /\ \/ Fail(r, "model")
       \/ \E text \in TripReplies :
            LET trip == parseMarkdownToJson(text)
            IN  req' = [req EXCEPT
                          ![r].pc = "photo", ![r].trip = trip,
                          ![r].log = req[r].log \o
                              <<Step("model", TRUE), Step("extract", trip # Null)>>]
    /\ UNCHANGED <<nextId, now, trips, gateVars, parseVars, viewVars>>

\* `await fetch(https://api.unsplash.com/search/photos...)` and the image list
ActionSearchPhotos(r) ==
    /\ req[r].pc = "photo"
    /\ \/ req' = [req EXCEPT
                    ![r].pc = "done", ![r].photo = "rejected",
                    ![r].log = Append(req[r].log, Step("photo", FALSE)),
                    ![r].response = ErrorResponse]
       \/ \E body \in PhotoResults \cup {NoResults} :
            LET imageUrls == imageUrlsOf(body)
            IN  IF imageUrls = Thrown
                  THEN req' = [req EXCEPT
                                 ![r].pc = "done", ![r].photo = body.kind,
                                 ![r].log = Append(req[r].log, Step("photo", FALSE)),
                                 ![r].response = ErrorResponse]
                  ELSE req' = [req EXCEPT
                                 ![r].pc = "store", ![r].photo = body.kind,
                                 ![r].results = IF body = NoResults THEN <<>> ELSE body.list,
                                 ![r].imageUrls = imageUrls.urls,
                                 ![r].log = Append(req[r].log, Step("photo", TRUE))]
    /\ UNCHANGED <<nextId, now, trips, gateVars, parseVars, viewVars>>

\* `await database.createDocument(..., ID.unique(), {...})` and the response
ActionCreateDocument(r) ==
    /\ req[r].pc = "store"
    /\ \/ /\ Fail(r, "store")
          /\ UNCHANGED <<trips, nextId>>
       \/ /\ trips' = Append(trips,
                 TripDoc(nextId, req[r].trip, now, req[r].imageUrls,
                         req[r].body.userId))
          /\ nextId' = nextId + 1
          /\ req' = [req EXCEPT
                       ![r].pc = "done",
                       ![r].log = Append(req[r].log, Step("store", TRUE)),
                       ![r].written = Append(req[r].written, nextId),
                       ![r].response = IdResponse(nextId)]
    /\ UNCHANGED <<now, gateVars, parseVars, viewVars>>

\* --------------------------------------------------------- create-trip form
\* a JavaScript number: NaN, or the value h / 2 (whole and half values)
NaN == [nan |-> TRUE, h |-> 0]
Num(h) == [nan |-> FALSE, h |-> h]
\* `a < b` and `a > b`: false as soon as one side is NaN
Lt(a, b) == ~a.nan /\ ~b.nan /\ a.h < b.h
Gt(a, b) == ~a.nan /\ ~b.nan /\ a.h > b.h

\* what can be typed into the duration input, and Number() of it
DurationTexts == {"", "1", "2.5", "10", "11", "abc"}
NumberOf(text) ==
    CASE text = "" -> Num(0)
      [] text = "1" -> Num(2)
      [] text = "2.5" -> Num(5)
      [] text = "10" -> Num(20)
      [] text = "11" -> Num(22)
      [] OTHER -> NaN

\* JSON.stringify of a number: NaN is written as null
JsonNumber(d) ==
    IF d.nan THEN [json |-> "null", h |-> 0] ELSE [json |-> "number", h |-> d.h]

SelectKeys == {"country", "travelStyle", "interest", "budget", "groupType"}

FormData(country) ==
    [country |-> country, travelStyle |-> "", interest |-> "",
     duration |-> Num(0), budget |-> "", groupType |-> ""]

\* `!formData.country || !formData.travelStyle || ...`
MissingField(d) ==
    \/ d.country = "" \/ d.travelStyle = "" \/ d.interest = ""
    \/ d.budget = "" \/ d.groupType = ""

DurationOutOfRange_upper(d) == Gt(d.duration, Num(20))
\* `formData.duration < 1 || formData.duration > 10`
DurationOutOfRange(d) ==
    Lt(d.duration, Num(2)) \/ Gt(d.duration, Num(20))

\* the body of the POST to /api/create-trip
RequestBody(d, userId) ==
    [country |-> d.country, numberOfDays |-> JsonNumber(d.duration),
     travelStyle |-> d.travelStyle, interests |-> d.interest,
     budget |-> d.budget, groupType |-> d.groupType, userId |-> userId]

\* what one run of handleSubmit has done so far
IdleAttempt ==
    [data |-> Pending, lookedUp |-> FALSE, body |-> Pending,
     errorSet |-> "none", outcome |-> "none"]

IdleForm(country) ==
    [data |-> FormData(country), error |-> "none", loading |-> FALSE,
     pc |-> "idle", user |-> NoSession, navigated |-> FALSE,
     attempt |-> IdleAttempt]

\* handleChange(key, value) from a combo box, which reports only real choices;
\* navigate() has left the page once form.navigated holds
handleChange(key) ==
    /\ form.pc = "idle"
    /\ ~form.navigated
    /\ form' = [form EXCEPT !.data[key] = "x"]
    /\ UNCHANGED <<storeVars, trend, page, stats, dash, calls, nav>>

\* handleChange('duration', Number(e.target.value))
handleChangeDuration(text) ==
    /\ form.pc = "idle"
    /\ ~form.navigated
    /\ form' = [form EXCEPT !.data.duration = NumberOf(text)]
    /\ UNCHANGED <<storeVars, trend, page, stats, dash, calls, nav>>

\* handleSubmit up to its first await: setLoading(true) and the validation
HandleSubmit ==
    /\ form.pc = "idle"
    /\ ~form.loading
    /\ ~form.navigated
    /\ LET d == form.data
       IN  IF MissingField(d)
             THEN form' = [form EXCEPT
                             !.error = "Please fill in all fields",
                             !.loading = FALSE,
                             !.attempt = [IdleAttempt EXCEPT
                                 !.data = d, !.outcome = "blocked",
                                 !.errorSet = "Please fill in all fields"]]
           ELSE IF DurationOutOfRange(d)
             THEN form' = [form EXCEPT
                             !.error = "Duration must be between 1 and 10 days",
                             !.loading = FALSE,
                             !.attempt = [IdleAttempt EXCEPT
                                 !.data = d, !.outcome = "blocked",
                                 !.errorSet = "Duration must be between 1 and 10 days"]]
           ELSE form' = [form EXCEPT
                             !.loading = TRUE, !.pc = "auth",
                             !.attempt = [IdleAttempt EXCEPT !.data = d]]
    /\ UNCHANGED <<storeVars, trend, page, stats, dash, calls, nav>>

\* `const user = await account.get()`, outside the try, and the fetch call
SubmitAccountGet ==
    /\ form.pc = "auth"
    /\ \E outcome \in {"reject", "noid", "ok"} :
         /\ (outcome # "reject") => session # NoSession
         /\ CASE outcome = "reject" ->
                   form' = [form EXCEPT !.pc = "idle",
                                        !.attempt.lookedUp = TRUE,
                                        !.attempt.outcome = "unhandled"]
              [] outcome = "noid" ->
                   form' = [form EXCEPT !.pc = "idle", !.loading = FALSE,
                                        !.attempt.lookedUp = TRUE,
                                        !.attempt.outcome = "unauthenticated"]
              [] OTHER ->
                   form' = [form EXCEPT !.pc = "fetch", !.user = session,
                                        !.attempt.lookedUp = TRUE,
                                        !.attempt.body =
                                            RequestBody(form.attempt.data, session)]
    /\ UNCHANGED <<storeVars, trend, page, stats, dash, calls, nav>>

\* `await fetch(...)`, `await response.json()`, the branch on result?.id and
\* the finally
SubmitResponse ==
    /\ form.pc = "fetch"
    /\ \E outcome \in {"threw", "noid", "id"} :
         form' = [form EXCEPT
                    !.pc = "idle", !.loading = FALSE,
                    !.navigated = (form.navigated \/ outcome = "id"),
                    !.attempt.outcome = outcome]
    /\ UNCHANGED <<storeVars, trend, page, stats, dash, calls, nav>>

\* -------------------------------------------------------------- stats card
\* an exact fraction n / d with d > 0, for the result of a division
Fraction(n, d) == [n |-> n, d |-> d]
Whole(k) == Fraction(k, 1)
Times(q, k) == Fraction(q.n * k, q.d)
MathAbs(q) == Fraction(IF q.n < 0 THEN 0 - q.n ELSE q.n, q.d)
SameNumber(q, r) == q.n * r.d = r.n * q.d

TrendResult(t, q) == [trend |-> t, percentage |-> q]

calculateTrendPercentage_reversed(countOfThisMonth, countOfLastMonth) ==
    IF countOfLastMonth = 0
      THEN IF countOfThisMonth = 0
             THEN TrendResult("no change", Whole(0))
             ELSE TrendResult("increment", Whole(100))
      ELSE LET change == countOfLastMonth - countOfThisMonth
               percentage == MathAbs(Times(Fraction(change, countOfLastMonth), 100))
           IN  IF change > 0 THEN TrendResult("increment", percentage)
               ELSE IF change < 0 THEN TrendResult("decrement", percentage)
               ELSE TrendResult("no change", Whole(0))
calculateTrendPercentage(countOfThisMonth, countOfLastMonth) ==
    IF countOfLastMonth = 0
      THEN IF countOfThisMonth = 0
             THEN TrendResult("no change", Whole(0))
             ELSE TrendResult("increment", Whole(100))
      ELSE LET change == countOfThisMonth - countOfLastMonth
               percentage == MathAbs(Times(Fraction(change, countOfLastMonth), 100))
           IN  IF change > 0 THEN TrendResult("increment", percentage)
               ELSE IF change < 0 THEN TrendResult("decrement", percentage)
               ELSE TrendResult("no change", Whole(0))

Counts == 0..MaxCount

\* the props a StatsCard is given
CardProps(current, last) ==
    [kind |-> "props", currentMonthCount |-> current, lastMonthCount |-> last]

\* StatsCard: calculateTrendPercentage(currentMonthCount, lastMonthCount)
StatsCard ==
    /\ trend.kind = "props"
    /\ trend' = [kind |-> "card",
                 currentMonthCount |-> trend.currentMonthCount,
                 lastMonthCount |-> trend.lastMonthCount,
                 result |-> calculateTrendPercentage(trend.currentMonthCount,
                                                     trend.lastMonthCount)]
    /\ UNCHANGED <<storeVars, form, page, stats, dash, calls, nav>>

\* -------------------------------------------------------------- trips page
\* `const limit = 8`
PageLimit == 8

\* an integer-valued JavaScript number, or NaN
NotANumber == [isNaN |-> TRUE, v |-> 0]
Integer(v) == [isNaN |-> FALSE, v |-> v]

\* the page parameter of the URL: absent, or its text
PageParams == {"absent", "", "0", "1", "2", "3", "2.7", "abc"}

\* `parseInt(url.searchParams.get('page') || '1', 10)`
parseInt(param) ==
    CASE param \in {"absent", "", "1"} -> Integer(1)
      [] param = "0" -> Integer(0)
      [] param \in {"2", "2.7"} -> Integer(2)
      [] param = "3" -> Integer(3)
      [] OTHER -> NotANumber

offsetOf_nextPage(pageNo, limit) ==
    IF pageNo.isNaN THEN NotANumber ELSE Integer(pageNo.v * limit)
\* `(page - 1) * limit`
offsetOf(pageNo, limit) ==
    IF pageNo.isNaN THEN NotANumber ELSE Integer((pageNo.v - 1) * limit)

\* a trips collection of n documents, oldest first
StoredTrips(n) == [i \in 1..n |-> TripDoc(i, Object("O1"), i, <<>>, "a1")]

\* listDocuments with Query.limit, Query.offset and Query.orderDesc('createdAt');
\* the store refuses an offset that is not a number of 0 or more
listTrips(coll, limit, offset) ==
    IF offset.isNaN \/ offset.v < 0 THEN Thrown
    ELSE LET n == Len(coll)
             m == IF offset.v >= n THEN 0 ELSE Min(limit, n - offset.v)
         IN  [kind |-> "list", total |-> n,
              documents |-> [k \in 1..m |-> coll[n - offset.v - k + 1]]]

\* getAllTrips(limit, offset) once the store has answered
getAllTrips(answer) ==
    IF answer = Thrown THEN Thrown
    ELSE IF answer.total = 0 THEN [kind |-> "page", allTrips |-> <<>>, total |-> 0]
    ELSE [kind |-> "page", allTrips |-> answer.documents, total |-> answer.total]

parseTripData_raw(jsonString) == JSONparse(jsonString)
\* parseTripData: JSON.parse, and null when it throws
parseTripData(jsonString) ==
    LET data == JSONparse(jsonString)
    IN  IF data = Thrown THEN Null ELSE data

\* what the loader returns: the trips' ids, their parsed details, and total
LoaderData(got) ==
    IF got = Thrown THEN Thrown
    ELSE [kind |-> "loaded",
          trips |-> [k \in 1..Len(got.allTrips) |-> got.allTrips[k].id],
          details |-> [k \in 1..Len(got.allTrips) |->
                         parseTripData(got.allTrips[k].tripDetail)],
          total |-> got.total]

\* a collection that already holds one document: one written earlier, or one
\* whose tripDetail is not JSON (the store checks the schema only loosely)
SeedTrips ==
    {<<>>,
     <<TripDoc(1, Object("O2"), 0, <<>>, "a1")>>,
     <<[TripDoc(1, Object("O2"), 0, <<>>, "a1") EXCEPT !.tripDetail = <<"X">>]>>}

PageRequest(param) ==
    [pc |-> "url", param |-> param, pageNo |-> NotANumber,
     query |-> Pending, storeTotal |-> 0, result |-> Pending]

\* loader: limit, page and offset from the request URL
LoaderParseUrl ==
    /\ page.pc = "url"
    /\ page' = [page EXCEPT
                  !.pc = "fetch",
                  !.pageNo = parseInt(page.param),
                  !.query = [kind |-> "query", limit |-> PageLimit,
                             offset |-> offsetOf(parseInt(page.param), PageLimit)]]
    /\ UNCHANGED <<storeVars, form, trend, stats, dash, calls, nav>>

\* loader: `await getAllTrips(limit, offset)` and the returned object; the
\* store may also be out of reach
LoaderGetAllTrips ==
    /\ page.pc = "fetch"
    /\ \E reachable \in BOOLEAN :
         LET answer == IF reachable
                         THEN listTrips(trips, page.query.limit, page.query.offset)
                         ELSE Thrown
         IN  page' = [page EXCEPT
                        !.pc = "done",
                        !.storeTotal = IF answer = Thrown THEN 0 ELSE answer.total,
                        !.result = LoaderData(getAllTrips(answer))]
    /\ UNCHANGED <<storeVars, form, trend, stats, dash, calls, nav>>

\* --------------------------------------------------------- dashboard stats
\* time is counted in half days: a day has DayTicks instants, a month MonthDays
\* days; ISO timestamps of one format compare as their instants do
DayTicks == 2
MonthDays == 2
MonthTicks == MonthDays * DayTicks
\* `d.getMonth()` of the clock in this model
ThisMonth == 2

\* `new Date(year, month, day)`: local midnight of that day; day 0 is the last
\* day of the month before
NewDate(month, day) == month * MonthTicks + (day - 1) * DayTicks
getMonth(t) == t \div MonthTicks

IsoDate(t) == [kind |-> "date", t |-> t]

\* `items.filter(item => item[key] >= start && (!end || item[key] <= end)).length`
filterByDate(items, key, start, end) ==
    Cardinality({ i \in 1..Len(items) :
                    /\ items[i][key] >= start.t
                    /\ (end = Undefined \/ items[i][key] <= end.t) })

\* `users.documents.filter(u => u.status === role)`
filterUsersByRole(documents, role) ==
    SelectSeq(documents, LAMBDA u : u.status = role)

tripsCreatedLastMonth_fromTrips(userDocs, tripDocs, startPrev, endPrev) ==
    filterByDate(tripDocs, "createdAt", startPrev, endPrev)
\* tripsCreated.lastMonth
tripsCreatedLastMonth(userDocs, tripDocs, startPrev, endPrev) ==
    filterByDate(filterUsersByRole(userDocs, "user"), "joinedAt", startPrev, endPrev)

\* the object getUsersAndTripsStats returns
DashboardStats(userDocs, tripDocs, startCurrent, startPrev, endPrev) ==
    [kind |-> "stats",
     totalUsers |-> Len(userDocs),
     usersJoined |->
       [currentMonth |-> filterByDate(userDocs, "joinedAt", startCurrent, Undefined),
        lastMonth |-> filterByDate(userDocs, "joinedAt", startPrev, endPrev)],
     userRole |->
       [total |-> Len(filterUsersByRole(userDocs, "user")),
        currentMonth |-> filterByDate(filterUsersByRole(userDocs, "user"),
                                      "joinedAt", startCurrent, Undefined),
        lastMonth |-> filterByDate(filterUsersByRole(userDocs, "user"),
                                   "joinedAt", startPrev, endPrev)],
     totalTrips |-> Len(tripDocs),
     tripsCreated |->
       [currentMonth |-> filterByDate(tripDocs, "createdAt", startCurrent, Undefined),
        lastMonth |-> tripsCreatedLastMonth(userDocs, tripDocs, startPrev, endPrev)]]

IdleStats ==
    [pc |-> "clock", startCurrent |-> IsoDate(0), startPrev |-> IsoDate(0),
     endPrev |-> IsoDate(0), result |-> Pending]

\* getUsersAndTripsStats: the three month boundaries from the clock
StatsReadClock ==
    /\ stats.pc = "clock"
    /\ stats' = [stats EXCEPT
                   !.pc = "listing",
                   !.startCurrent = IsoDate(NewDate(getMonth(now), 1)),
                   !.startPrev = IsoDate(NewDate(getMonth(now) - 1, 1)),
                   !.endPrev = IsoDate(NewDate(getMonth(now), 0))]
    /\ UNCHANGED <<storeVars, form, trend, page, dash, calls, nav>>

\* getUsersAndTripsStats: the two listings and the returned object; a listing
\* that rejects rejects the whole call
StatsListDocuments ==
    /\ stats.pc = "listing"
    /\ \E reachable \in BOOLEAN :
         stats' = [stats EXCEPT
                     !.pc = "done",
                     !.result = IF reachable
                                  THEN DashboardStats(users, trips, stats.startCurrent,
                                                      stats.startPrev, stats.endPrev)
                                  ELSE Thrown]
    /\ UNCHANGED <<storeVars, form, trend, page, dash, calls, nav>>

\* the instants a document of the stats collections may carry: around the
\* boundaries of the previous month, and the clock's own instant
StampsAt(t) ==
    {NewDate(getMonth(t) - 1, 1) - 1, NewDate(getMonth(t) - 1, 1),
     NewDate(getMonth(t), 0), NewDate(getMonth(t), 0) + 1,
     NewDate(getMonth(t), 1), t}

StatUsers(t) ==
    UNION { [1..n -> { ProfileDoc(0, "a1", role, "nopicture", at) :
                         role \in {"user", "admin"}, at \in StampsAt(t) }] :
            n \in 0..MaxStatUsers }

StatTrips(t) ==
    UNION { [1..n -> { TripDoc(0, Object("O1"), at, <<>>, "a1") : at \in StampsAt(t) }] :
            n \in 0..MaxStatTrips }

\* ---------------------------------------------------------- query wrappers
Wrappers ==
    {"getUser", "getExistingUser", "getAllUsers", "storeUserData", "logoutUser",
     "getAllTrips", "getTripById", "getUsersAndTripsStats",
     "getUserGrowthPerDay", "getTripsByTravelStyle"}

\* what a wrapper gives its caller when the store or session call inside it
\* rejects: the value its catch returns, or the rejection where it has no catch
OnRejection(fn) ==
    CASE fn \in {"getUser", "getExistingUser"} -> "null"
      [] fn = "getAllUsers" -> "empty"
      [] fn \in {"storeUserData", "logoutUser"} -> "undefined"
      [] OTHER -> "rejected"

\* one call of a wrapper, whose inner call succeeds or rejects
QueryCall(fn) ==
    /\ Len(calls) < MaxCalls
    /\ \E ok \in BOOLEAN :
         calls' = Append(calls, [fn |-> fn, failed |-> ~ok,
                                 outcome |-> IF ok THEN "value" ELSE OnRejection(fn)])
    /\ UNCHANGED <<storeVars, form, trend, page, stats, dash, nav>>

\* ------------------------------------------------------ dashboard clientLoader
Dashes == 1..MaxDash

\* the array handed to Promise.all, in order
Fetches ==
    <<"getUser", "getUsersAndTripsStats", "getAllTrips", "getUserGrowthPerDay",
      "getTripsByTravelStyle", "getAllUsers">>

IdleDash == [started |-> <<>>, completed |-> <<>>, rejected |-> <<>>, result |-> Pending]

\* `await f()` inside the array literal: the next call is made once the one
\* before it has been awaited
DashCall(d) ==
    /\ dash[d].result = Pending
    /\ Len(dash[d].started) = Len(dash[d].completed)
    /\ Len(dash[d].started) < Len(Fetches)
    /\ dash' = [dash EXCEPT ![d].started = Append(@, Fetches[Len(@) + 1])]
    /\ UNCHANGED <<storeVars, form, trend, page, stats, calls, nav>>

\* the awaited call settles; a rejection is thrown out of the loader
DashSettle(d) ==
    /\ dash[d].result = Pending
    /\ Len(dash[d].started) > Len(dash[d].completed)
    /\ LET fn == dash[d].started[Len(dash[d].started)]
       IN  \E ok \in BOOLEAN :
             IF ok \/ OnRejection(fn) # "rejected"
               THEN dash' = [dash EXCEPT ![d].completed = Append(@, fn)]
               ELSE dash' = [dash EXCEPT ![d].rejected = Append(@, fn),
                                         ![d].completed = Append(@, fn),
                                         ![d].result = Thrown]
    /\ UNCHANGED <<storeVars, form, trend, page, stats, calls, nav>>

\* Promise.all over the six values, the mapping and the returned object
DashReturn(d) ==
    /\ dash[d].result = Pending
    /\ Len(dash[d].completed) = Len(Fetches)
    /\ dash' = [dash EXCEPT ![d].result = [kind |-> "dashboard",
                                          fetched |-> dash[d].completed]]
    /\ UNCHANGED <<storeVars, form, trend, page, stats, calls, nav>>

\* ------------------------------------------------------------- navigation
\* the routes of routes.ts: the sign-in page, the public index page, and a
\* page under the admin layout
Routes == {"/sign-in", "/", "/dashboard"}

Navigate(route) ==
    [route |-> route, pc |-> "loader", hops |-> 0, trail |-> <<route>>,
     got |-> "pending", result |-> Pending]

\* the router acts on what a loader returned: it follows a redirect, and
\* renders the route otherwise
Follow(res) ==
    IF res.kind = "redirect" /\ nav.hops < MaxHops
      THEN [nav EXCEPT !.route = res.to, !.pc = "loader", !.hops = @ + 1,
                       !.trail = Append(@, res.to)]
      ELSE [nav EXCEPT !.pc = IF res.kind = "redirect" THEN "stopped" ELSE "rendered"]

signInResult_never(outcome) == Undefined
\* sign-in clientLoader: `if (user.$id) return redirect('/')`, and nothing is
\* returned otherwise, also when account.get rejects
signInResult(outcome) ==
    IF outcome = "ok" THEN Redirect("/") ELSE Undefined

\* the sign-in route's clientLoader
SignInLoader ==
    /\ nav.route = "/sign-in"
    /\ nav.pc = "loader"
    /\ \E outcome \in {"reject", "noid", "ok"} :
         /\ (outcome # "reject") => session # NoSession
         /\ nav' = [Follow(signInResult(outcome)) EXCEPT
                       !.got = outcome, !.result = signInResult(outcome)]
    /\ UNCHANGED <<storeVars, form, trend, page, stats, dash, calls>>

\* the index route is not under the admin layout: no loader of the gate runs
PublicPage ==
    /\ nav.route = "/"
    /\ nav.pc = "loader"
    /\ nav' = [nav EXCEPT !.pc = "rendered"]
    /\ UNCHANGED <<storeVars, form, trend, page, stats, dash, calls>>

\* a route under the admin layout runs the admin clientLoader first
AdminRouteLoading == nav.route = "/dashboard" /\ nav.pc = "loader"

\* the admin clientLoader has returned
AdminRouteLoaded ==
    /\ AdminRouteLoading
    /\ load[1].pc = "done"
    /\ nav' = Follow(load[1].result)
    /\ load' = IF load[1].result.kind = "redirect"
                 THEN [load EXCEPT ![1] = IdleLoad] ELSE load
    /\ UNCHANGED <<users, nextId, session, now, tripVars, parseVars,
                   form, trend, page, stats, dash, calls>>

\* ------------------------------------------------------------ initial state
\* profile collections the store can hold before any load: at most one
\* profile per account, with any role
InitialCollections ==
    {<<>>}
    \cup { <<ProfileDoc(1, a, r, "nopicture", 0)>> : a \in Accounts, r \in Roles }
    \cup { c \in { <<ProfileDoc(1, a, r, "nopicture", 0),
                      ProfileDoc(2, b, q, "nopicture", 0)>> :
                      a \in Accounts, b \in Accounts, r \in Roles, q \in Roles } :
             c[1].accountId # c[2].accountId }

\* every reply text of at most MaxReplyLen pieces
AllReplies == UNION { [1..n -> Alphabet] : n \in 0..MaxReplyLen }

GateIdle ==
    /\ users = <<>>
    /\ session = NoSession
    /\ load = [l \in Loads |-> IdleLoad]

TripIdle ==
    /\ trips = <<>>
    /\ req = [r \in Reqs |-> IdleReq]

ParseIdle ==
    /\ reply = <<>>
    /\ parsed = Pending

\* nothing stored, nobody signed in, no load and no request under way
StoreIdle ==
    /\ nextId = 3
    /\ now = 0
    /\ GateIdle
    /\ TripIdle
    /\ ParseIdle

FormIdle == form = IdleForm("")
TrendIdle == trend = Pending
PageIdle == page = PageRequest("absent")
StatsIdle == stats = IdleStats
DashIdle == dash = [d \in Dashes |-> IdleDash]
CallsIdle == calls = <<>>
NavIdle == nav = [Navigate("/") EXCEPT !.pc = "rendered"]

ViewIdle ==
    /\ FormIdle /\ TrendIdle /\ PageIdle /\ StatsIdle /\ DashIdle /\ CallsIdle /\ NavIdle

\* the admin gate: loads of admin routes against the profile collection
Init ==
    /\ users \in InitialCollections
    /\ nextId = 3
    /\ session \in Accounts \cup {NoSession}
    /\ now = 0
    /\ load = [l \in Loads |-> IdleLoad]
    /\ TripIdle
    /\ ParseIdle
    /\ ViewIdle

Next ==
    \/ \E l \in Loads : LoaderAccountGet(l)
    \/ \E l \in Loads : LoaderGetExistingUser(l)
    \/ \E l \in Loads : StoreAccountGet(l)
    \/ \E l \in Loads : StoreGetSession(l)
    \/ \E l \in Loads : StoreCreateDocument(l)
    \/ logoutUser
    \/ Tick

Spec == Init /\ [][Next]_vars

\* the create-trip action: requests against the itinerary collection
TripInit ==
    /\ nextId = 3
    /\ now = 0
    /\ GateIdle
    /\ TripIdle
    /\ ParseIdle
    /\ ViewIdle

TripNext ==
    \/ \E r \in Reqs : ActionReadBody(r)
    \/ \E r \in Reqs : ActionGenerate(r)
    \/ \E r \in Reqs : ActionSearchPhotos(r)
    \/ \E r \in Reqs : ActionCreateDocument(r)

SpecTrip == TripInit /\ [][TripNext]_vars

\* parseMarkdownToJson applied to every reply text
ParseInit ==
    /\ nextId = 3
    /\ now = 0
    /\ GateIdle
    /\ TripIdle
    /\ reply \in AllReplies
    /\ parsed = Pending
    /\ ViewIdle

ParseNext == ParseReply

SpecParse == ParseInit /\ [][ParseNext]_vars

\* the create-trip form: edits and submissions
FormInit ==
    /\ nextId = 3
    /\ now = 0
    /\ users = <<>>
    /\ session \in Accounts \cup {NoSession}
    /\ load = [l \in Loads |-> IdleLoad]
    /\ TripIdle
    /\ ParseIdle
    /\ form \in {IdleForm(""), IdleForm("x")}
    /\ TrendIdle /\ PageIdle /\ StatsIdle /\ DashIdle /\ CallsIdle /\ NavIdle

FormNext ==
    \/ \E key \in SelectKeys : handleChange(key)
    \/ \E text \in DurationTexts : handleChangeDuration(text)
    \/ HandleSubmit
    \/ SubmitAccountGet
    \/ SubmitResponse

SpecForm == FormInit /\ [][FormNext]_vars

\* ================================================================ claims
\* a stats card given any two counts
TrendInit ==
    /\ StoreIdle
    /\ FormIdle /\ PageIdle /\ StatsIdle /\ DashIdle /\ CallsIdle /\ NavIdle
    /\ trend \in { CardProps(c, l) : c \in Counts, l \in Counts }

TrendNext == StatsCard

SpecTrend == TrendInit /\ [][TrendNext]_vars

\* the trips page: one load for any page parameter and any stored collection
PageInit ==
    /\ nextId = MaxStored + 1
    /\ now = MaxStored + 1
    /\ GateIdle
    /\ req = [r \in Reqs |-> IdleReq]
    /\ ParseIdle
    /\ trips \in { StoredTrips(n) : n \in 0..MaxStored }
    /\ page \in { PageRequest(param) : param \in PageParams }
    /\ FormIdle /\ TrendIdle /\ StatsIdle /\ DashIdle /\ CallsIdle /\ NavIdle

PageNext ==
    \/ LoaderParseUrl
    \/ LoaderGetAllTrips

SpecPage == PageInit /\ [][PageNext]_vars

\* dashboard statistics over any small user and trip collections, at any
\* instant of the current month
StatsInit ==
    /\ nextId = 3
    /\ now \in NewDate(ThisMonth, 1) .. (NewDate(ThisMonth + 1, 1) - 1)
    /\ users \in StatUsers(now)
    /\ trips \in StatTrips(now)
    /\ session = NoSession
    /\ load = [l \in Loads |-> IdleLoad]
    /\ req = [r \in Reqs |-> IdleReq]
    /\ ParseIdle
    /\ stats = IdleStats
    /\ FormIdle /\ TrendIdle /\ PageIdle /\ DashIdle /\ CallsIdle /\ NavIdle

StatsNext ==
    \/ StatsReadClock
    \/ StatsListDocuments

SpecStats == StatsInit /\ [][StatsNext]_vars

\* dashboard loads
DashInit ==
    /\ StoreIdle
    /\ FormIdle /\ TrendIdle /\ PageIdle /\ StatsIdle /\ DashIdle /\ CallsIdle /\ NavIdle

DashNext ==
    \/ \E d \in Dashes : DashCall(d)
    \/ \E d \in Dashes : DashSettle(d)
    \/ \E d \in Dashes : DashReturn(d)

SpecDash == DashInit /\ [][DashNext]_vars

\* calls of the query wrappers
QueryInit ==
    /\ StoreIdle
    /\ FormIdle /\ TrendIdle /\ PageIdle /\ StatsIdle /\ DashIdle /\ CallsIdle /\ NavIdle

QueryNext == \E fn \in Wrappers : QueryCall(fn)

SpecQueries == QueryInit /\ [][QueryNext]_vars

\* the itinerary collection under one create-trip request and its readers:
\* the trips page, the dashboard statistics and the trip-detail lookup
ItineraryInit ==
    /\ nextId = 3
    /\ now = 0
    /\ GateIdle
    /\ req = [r \in Reqs |-> IdleReq]
    /\ ParseIdle
    /\ trips \in SeedTrips
    /\ FormIdle /\ TrendIdle /\ PageIdle /\ StatsIdle /\ DashIdle /\ CallsIdle /\ NavIdle

ItineraryNext ==
    \/ ActionReadBody(1)
    \/ ActionGenerate(1)
    \/ ActionSearchPhotos(1)
    \/ ActionCreateDocument(1)
    \/ LoaderParseUrl
    \/ LoaderGetAllTrips
    \/ StatsReadClock
    \/ StatsListDocuments
    \/ QueryCall("getTripById")

SpecItinerary == ItineraryInit /\ [][ItineraryNext]_vars

\* one navigation to any route, for any session and profile collection
NavInit ==
    /\ users \in InitialCollections
    /\ nextId = 3
    /\ session \in Accounts \cup {NoSession}
    /\ now = 0
    /\ load = [l \in Loads |-> IdleLoad]
    /\ TripIdle
    /\ ParseIdle
    /\ FormIdle /\ TrendIdle /\ PageIdle /\ StatsIdle /\ DashIdle /\ CallsIdle
    /\ nav \in { Navigate(route) : route \in Routes }

NavNext ==
    \/ SignInLoader
    \/ PublicPage
    \/ AdminRouteLoading /\ LoaderAccountGet(1)
    \/ AdminRouteLoading /\ LoaderGetExistingUser(1)
    \/ AdminRouteLoading /\ StoreAccountGet(1)
    \/ AdminRouteLoading /\ StoreGetSession(1)
    \/ AdminRouteLoading /\ StoreCreateDocument(1)
    \/ AdminRouteLoaded

SpecNav == NavInit /\ [][NavNext]_vars

\* the router keeps going while a loader has something to do
SpecNavLive == NavInit /\ [][NavNext]_vars /\ WF_vars(NavNext)

\* ---------------------------------------------------------------- gate
Done(l) == load[l].pc = "done"
LookedUp(l, role) ==
    /\ load[l].existingUser.kind = "doc"
    /\ load[l].existingUser.status = role

\* C1: a load of an admin route ends without a redirect only for a session
\* whose stored profile has the admin role; a session without profile, or
\* whose profile has no role or another role, is never admitted.
C1_AdminOnly ==
    \A l \in Loads :
        (Done(l) /\ load[l].result.kind # "redirect") =>
            \E i \in 1..Len(users) :
                /\ users[i].accountId = load[l].got
                /\ users[i].status = "admin"

\* C2: when account.get rejects or yields no account id, the load ends with a
\* redirect to /sign-in.
C2_NoSessionRedirect ==
    \A l \in Loads :
        load[l].got \in {"reject", "noid"} =>
            Done(l) /\ load[l].result = Redirect("/sign-in")

C2_Witness ==
    \E l \in Loads :
        /\ load[l].got = "reject" /\ Done(l)
        /\ \E k \in Loads : load[k].got = "noid" /\ Done(k)

\* C3: when the profile getExistingUser finds for the session has the role
\* 'user', the load ends with a redirect to '/' and has created no profile.
C3_UserRoleRedirect ==
    \A l \in Loads :
        LookedUp(l, "user") =>
            /\ Done(l)
            /\ load[l].result = Redirect("/")
            /\ load[l].created = 0

C3_Witness ==
    \E l \in Loads : LookedUp(l, "user") /\ Done(l) /\ Len(users) > 0

Finished(r) == req[r].pc = "done"
PhotoFailed(r) == req[r].photo \in {"rejected", "noresults"}
StepOrder == <<"model", "extract", "photo", "store">>

\* C5: when parseMarkdownToJson returns null, the action responds with
\* {error} and writes no itinerary document.
C5_NullExtractionFails ==
    \A r \in Reqs :
        (Finished(r) /\ req[r].trip = Null) =>
            req[r].response = ErrorResponse /\ req[r].written = <<>>

\* C6 as stated: when the photo search rejects or answers without a result
\* list, the itinerary is still persisted, with an empty image list, and the
\* action responds with {id}.
C6_FailedEnrichmentPersists ==
    \A r \in Reqs :
        (Finished(r) /\ PhotoFailed(r)) =>
            /\ req[r].response.kind = "id"
            /\ \E i \in 1..Len(trips) :
                 trips[i].id = req[r].response.id /\ trips[i].imageUrls = <<>>

\* C6 amended: when the photo search rejects or answers without a result
\* list, the action ends there, responds with {error} and writes no itinerary
\* document.
C6_FailedEnrichmentIsError ==
    \A r \in Reqs :
        PhotoFailed(r) =>
            /\ Finished(r)
            /\ req[r].response = ErrorResponse
            /\ req[r].written = <<>>
            /\ \A i \in 1..Len(req[r].log) : req[r].log[i].step # "store"

C6_Witness ==
    \E r \in Reqs :
        /\ req[r].photo = "noresults" /\ Finished(r)
        /\ \E q \in Reqs : req[q].photo = "rejected" /\ Finished(q)

\* C7: every request, also one whose body is not valid JSON, ends with the
\* action returning {id} or {error}; nothing is thrown out of the handler.
C7_AlwaysIdOrError ==
    \A r \in Reqs :
        Finished(r) => req[r].response.kind \in {"id", "error"}

\* C8: the steps of one execution happen at most once each and in the order
\* model call, extraction, photo search, store write; a run that returns {id}
\* has made all of them exactly once; and after a step that fails no later
\* step runs.
C8_PipelineOrder ==
    \A r \in Reqs :
        LET log == req[r].log
        IN  /\ Len(log) <= Len(StepOrder)
            /\ \A i \in 1..Len(log) : log[i].step = StepOrder[i]
            /\ (req[r].response.kind = "id") => Len(log) = Len(StepOrder)
            /\ \A i \in 1..Len(log) : (~log[i].ok) => i = Len(log)

\* the itinerary documents request r has written
WrittenBy(r) ==
    { i \in 1..Len(trips) :
        \E k \in 1..Len(req[r].written) : trips[i].id = req[r].written[k] }
\* the stored list is the first min(3, |R|) results of R, in their order
FirstThreeOf(urls, R) ==
    /\ Len(urls) = Min(3, Len(R))
    /\ Len(urls) <= 3
    /\ \A k \in 1..Len(urls) :
         urls[k] = (IF R[k] = "nourl" THEN "null" ELSE R[k])

\* C11 as stated: the imageUrls stored with the itinerary come from the first
\* min(3, |R|) results in their order, are never more than three, and every
\* entry is an image URL.
C11_FirstThreeAllUrls ==
    \A r \in Reqs : \A i \in WrittenBy(r) :
        /\ FirstThreeOf(trips[i].imageUrls, req[r].results)
        /\ \A k \in 1..Len(trips[i].imageUrls) : trips[i].imageUrls[k] # "null"

\* C11 amended: the imageUrls stored with the itinerary come from the first
\* min(3, |R|) results in their order, are never more than three, and every
\* entry is the urls.regular of its result, or null when the result has none.
C11_FirstThree ==
    \A r \in Reqs : \A i \in WrittenBy(r) :
        FirstThreeOf(trips[i].imageUrls, req[r].results)

C11_Witness ==
    \E r \in Reqs : \E i \in WrittenBy(r) :
        Len(req[r].results) > 3 /\ Len(trips[i].imageUrls) = 3

\* ----------------------------------------------------- parseMarkdownToJson
\* a ```json fenced block of s: ```json and a newline at i, a non-empty
\* content, and a newline followed by ``` at c
IsBlock(s, i, c) ==
    /\ c >= i + 3 /\ c + 1 <= Len(s)
    /\ s[i] = "F" /\ s[i + 1] = "N"
    /\ s[c] = "N" /\ Ticks(s[c + 1])
BlockStarts(s) ==
    { i \in 1..Len(s) : \E c \in 1..Len(s) : IsBlock(s, i, c) }
FirstBlock(s) ==
    LET i == CHOOSE x \in BlockStarts(s) : \A y \in BlockStarts(s) : x <= y
        ends == { c \in 1..Len(s) : IsBlock(s, i, c) }
        c == CHOOSE x \in ends : \A y \in ends : x <= y
    IN  SubSeq(s, i + 2, c - 1)
WellFormedJson(text) ==
    \E k \in 1..Len(text) :
        /\ text[k] \in JsonTokens
        /\ \A m \in 1..Len(text) : m # k => text[m] = "N"
ValueOf(text) ==
    JsonValue(text[CHOOSE k \in 1..Len(text) : text[k] \in JsonTokens])

C10_PromptFormatAccepted ==
    (parsed # Pending /\ FollowsPrompt(reply)) => parsed # Null

\* ------------------------------------------------- claims: create-trip form
Submitted == form.attempt.data # Pending

\* a duration that is a number below 1 or above 10
OutsideRange(d) == ~d.duration.nan /\ (d.duration.h < 2 \/ d.duration.h > 20)

EmptyField(d) == \E key \in SelectKeys : d[key] = ""

C13_WholeDayCount ==
    (Submitted /\ form.attempt.body # Pending)
        => LET n == form.attempt.body.numberOfDays
           IN  /\ n.json = "number"
               /\ n.h % 2 = 0
               /\ n.h >= 2
               /\ n.h <= 20

\* C14: when creation fails after submission (no id in the response, or the
\* request throws), the submission sets a user-visible message or redirects.
C14_FailureSurfaced ==
    (Submitted /\ form.attempt.outcome \in {"threw", "noid"})
        => (form.attempt.errorSet # "none" \/ form.navigated)

\* --------------------------------------------------------- claims: stats card
Rendered == trend.kind = "card"

\* C15: for non-negative counts, a prior count of 0 gives {no change, 0} when
\* the current count is 0 and {increment, 100} otherwise; a prior count above 0
\* gives the percentage |current - prior| / prior * 100 with increment when
\* current > prior and decrement when current < prior, and {no change, 0} when
\* they are equal; (0,0), (5,0) and (8,10) give no change/0, increment/100 and
\* decrement/20.
C15_TrendPercentage ==
    Rendered =>
        LET c == trend.currentMonthCount
            p == trend.lastMonthCount
            r == trend.result
            diff == IF c > p THEN c - p ELSE p - c
        IN  /\ (p = 0 /\ c = 0) => (r.trend = "no change" /\ SameNumber(r.percentage, Whole(0)))
            /\ (p = 0 /\ c > 0) => (r.trend = "increment" /\ SameNumber(r.percentage, Whole(100)))
            /\ (p > 0 /\ c # p) => r.percentage.n * p = diff * 100 * r.percentage.d
            /\ (p > 0 /\ c > p) => r.trend = "increment"
            /\ (p > 0 /\ c < p) => r.trend = "decrement"
            /\ (p > 0 /\ c = p) => (r.trend = "no change" /\ SameNumber(r.percentage, Whole(0)))
            /\ (c = 5 /\ p = 0) => r = TrendResult("increment", Whole(100))
            /\ (c = 8 /\ p = 10) => (r.trend = "decrement" /\ SameNumber(r.percentage, Whole(20)))

C15_Witness ==
    /\ Rendered
    /\ trend.currentMonthCount = 8
    /\ trend.lastMonthCount = 10
    /\ trend.result.trend = "decrement"

\* --------------------------------------------------------- claims: trips page
\* the page number a URL asks for: 1 when the parameter is absent or empty
PageNumbers == {"absent", "", "0", "1", "2", "3"}
AskedPage ==
    CASE page.param \in {"absent", "", "1"} -> 1
      [] page.param = "0" -> 0
      [] page.param = "2" -> 2
      [] OTHER -> 3

\* C16: for every page number N of the URL (1 when absent) the trips loader
\* queries the store with limit 8 and offset (N-1)*8, and the total it returns
\* is the total the store reported for the trips collection.
C16_Pagination ==
    (page.param \in PageNumbers /\ page.pc \in {"fetch", "done"})
        => /\ page.query.limit = 8
           /\ page.query.offset = Integer((AskedPage - 1) * 8)
           /\ (page.pc = "done" /\ page.result # Thrown)
                 => (page.result.total = page.storeTotal
                     /\ page.result.total = Len(trips))

C16_Witness ==
    /\ page.pc = "done"
    /\ page.param = "2"
    /\ page.result # Thrown
    /\ page.result.total = 9
    /\ page.result.trips = <<1>>

\* ---------------------------------------------------- claims: dashboard stats
Computed == stats.pc = "done" /\ stats.result # Thrown

\* the user documents of role `user` stamped inside the closed window
UsersOfRoleIn(from, to) ==
    Cardinality({ i \in 1..Len(users) :
                    /\ users[i].status = "user"
                    /\ users[i].joinedAt >= from
                    /\ users[i].joinedAt <= to })

\* C17: tripsCreated.lastMonth equals userRole.lastMonth, and is a count over
\* the user documents alone, whatever the trip documents are.
C17_TripsLastMonthIsUserRole ==
    Computed =>
        /\ stats.result.tripsCreated.lastMonth = stats.result.userRole.lastMonth
        /\ stats.result.tripsCreated.lastMonth =
               UsersOfRoleIn(stats.startPrev.t, stats.endPrev.t)

C17_Witness ==
    /\ Computed
    /\ Len(trips) = 1
    /\ trips[1].createdAt = stats.startPrev.t
    /\ stats.result.tripsCreated.lastMonth = 0

JoinedInMonth(m) ==
    Cardinality({ i \in 1..Len(users) : getMonth(users[i].joinedAt) = m })

\* C18: usersJoined.lastMonth counts every user document stamped anywhere in
\* the previous calendar month, its whole last day included, and
\* usersJoined.currentMonth every one stamped in the current month.
C18_WholeMonthsCounted ==
    Computed =>
        /\ stats.result.usersJoined.lastMonth = JoinedInMonth(getMonth(now) - 1)
        /\ stats.result.usersJoined.currentMonth = JoinedInMonth(getMonth(now))

\* ------------------------------------------------- claims: dashboard loader
\* C19: the dashboard loader starts all six fetches before any of them has
\* completed, and joins them all-or-nothing: once a fetch has rejected the
\* loader has rejected, and data is returned only with all six fulfilled.
C19_ConcurrentAllOrNothing ==
    \A d \in Dashes :
        /\ Len(dash[d].completed) > 0 => Len(dash[d].started) = 6
        /\ Len(dash[d].rejected) > 0 => dash[d].result = Thrown
        /\ (dash[d].result # Pending /\ dash[d].result # Thrown)
              => (Len(dash[d].completed) = 6 /\ dash[d].rejected = <<>>)

\* ---------------------------------------------------- claims: query wrappers
\* C20: a failure of the store or session call inside any of the ten query
\* wrappers is caught inside the wrapper and becomes a null/empty result or a
\* redirect; no wrapper passes the rejection on to its caller.
C20_FailuresCaught ==
    \A k \in 1..Len(calls) :
        calls[k].failed => calls[k].outcome \in {"null", "empty", "undefined", "redirect"}

\* ------------------------------------------------- claims: stored documents
\* the ids the application itself gives out start at 3
AppCreated(doc) == doc.id >= 3

\* C21: every itinerary document the create-trip action has written holds an
\* itinerary with a non-empty day list; in particular its tripDetail denotes
\* an itinerary object and not the JSON literal null.
C21_StoredItineraryHasDays ==
    \A i \in 1..Len(trips) :
        AppCreated(trips[i]) => JSONparse(trips[i].tripDetail) \notin {Null, Thrown}

\* C22: every profile document created by the admin gate has a role that is
\* 'user' or 'admin'.
C22_CreatedProfileHasRole ==
    \A i \in 1..Len(users) :
        AppCreated(users[i]) => users[i].status \in {"user", "admin"}

\* --------------------------------------------- claims: itinerary collection
IdsOf(coll) == { coll[i].id : i \in 1..Len(coll) }

\* C23: an itinerary document never changes once created: the collection only
\* grows, by the createDocument of a create-trip request that answers {id},
\* with an id no stored document has; the trips page, the statistics and the
\* trip lookup leave it as it is.
C23_ItineraryImmutable ==
    [][ \/ trips' = trips
        \/ /\ Len(trips') = Len(trips) + 1
           /\ SubSeq(trips', 1, Len(trips)) = trips
           /\ trips'[Len(trips')].id \notin IdsOf(trips)
           /\ \E r \in Reqs :
                /\ req[r].pc = "store"
                /\ req'[r].response = IdResponse(trips'[Len(trips')].id)
           /\ page' = page /\ stats' = stats /\ calls' = calls ]_vars

C23_Witness ==
    /\ Len(trips) = 2
    /\ trips[1].id = 1
    /\ page.pc = "done" /\ page.result # Thrown /\ page.result.total = 2
    /\ stats.pc = "done" /\ stats.result # Thrown
    /\ Len(calls) > 0

\* the stored document with a given id
DocWithId(id) == trips[CHOOSE i \in 1..Len(trips) : trips[i].id = id]

C27_ResponseAgreesWithStore ==
    /\ \A r \in Reqs :
         /\ req[r].response = ErrorResponse =>
               (req[r].written = <<>> /\ WrittenBy(r) = {})
         /\ req[r].response.kind = "id" =>
               /\ req[r].written = <<req[r].response.id>>
               /\ Cardinality({ i \in 1..Len(trips) :
                                  trips[i].id = req[r].response.id }) = 1
    /\ Len(trips) = Cardinality({ r \in Reqs : req[r].response.kind = "id" })

C27_Witness ==
    \E r, q \in Reqs :
        /\ req[r].response.kind = "id"
        /\ req[q].response = ErrorResponse
        /\ req[q].log # <<>>
        /\ Len(trips) = 1

\* ---------------------------------------------------- claims: first login
\* C26: a load whose lookup found no profile for the session creates exactly
\* one profile document carrying the session's account id, email, name and
\* the join timestamp, and returns that document as the loader data.
C26_FirstLoginReturnsProfile ==
    \A l \in Loads :
        (Done(l) /\ load[l].existingUser = Null) =>
            /\ load[l].created = 1
            /\ load[l].result.kind = "data"
            /\ \E i \in 1..Len(users) :
                 /\ users[i] = load[l].result.doc
                 /\ users[i].accountId = load[l].got
                 /\ users[i].email = EmailOf(load[l].got)
                 /\ users[i].name = NameOf(load[l].got)

\* C28: the profile collection never holds two profile documents with the
\* same external account id.
C28_OneProfilePerAccount ==
    \A i, j \in 1..Len(users) :
        users[i].accountId = users[j].accountId => i = j

\* ------------------------------------------------------- claims: navigation
\* C25: the sign-in loader returns a redirect to '/' when account.get yields
\* an account id, and returns no redirect when account.get rejects, so that
\* the sign-in page renders.
C25_SignInLoader ==
    /\ nav.got = "ok" =>
          (nav.result = Redirect("/") /\ nav.route = "/"
           /\ nav.trail[Len(nav.trail) - 1] = "/sign-in")
    /\ nav.got = "reject" =>
          (nav.result.kind # "redirect" /\ nav.route = "/sign-in"
           /\ nav.pc = "rendered")

C25_Witness ==
    /\ nav.got = "ok"
    /\ session # NoSession
    /\ nav.route = "/"
    /\ nav.pc = "rendered"

\* C29: a navigation to any route follows at most two redirects, visits no
\* route twice, and ends with a rendered page.
C29_RedirectsTerminate ==
    /\ [](/\ nav.hops <= 2
          /\ nav.pc # "stopped"
          /\ \A i, j \in 1..Len(nav.trail) : nav.trail[i] = nav.trail[j] => i = j)
    /\ <>(nav.pc = "rendered")

C29_Witness ==
    /\ nav.pc = "rendered"
    /\ nav.hops = 2
    /\ nav.trail = <<"/dashboard", "/sign-in", "/">>

\* ------------------------------------------------- claims: submit button
\* C30: every run of handleSubmit ends with loading = false: once no
\* submission is under way, the submit button is enabled again.
C30_LoadingReset ==
    (Submitted /\ form.pc = "idle") => ~form.loading

====
